---------------------------- MODULE Spec2Model ----------------------------
(***************************************************************************)
(* State-machine model of the SimCLR training / evaluation scripts:        *)
(*   src/train.py                checkpointing, NT-Xent loss, train loop   *)
(*   src/eval_crop_optimized.py  feature shards written and read back      *)
(* File names are sequences of one-character strings so that formatting,   *)
(* splitting, integer parsing and Python's string ordering are computed.   *)
(***************************************************************************)
EXTENDS Integers, Sequences, FiniteSets, TLC

VARIABLES
    results_dir,      \* eval: file name -> rows stored in that .npy file
    epc,              \* eval: position of eval_crop_optimized.__main__
    nTrain,           \* eval: len(train_loader)
    nTest,            \* eval: len(eval_loader)
    ei,               \* eval: loop index i of extract_features_and_labels
    classifier_type,  \* eval: args.classifier
    features,         \* eval: features returned by load_and_concatenate_features
    labels,           \* eval: labels returned by load_and_concatenate_features
    fit_calls,        \* eval: (features, labels) chunks given to the classifier
    pred_calls,       \* eval: (features, labels) chunks predicted / scored
    dir_state,        \* checkpoint directory: "missing", "unreadable" or "ok"
    ckpt_dir,         \* checkpoint files, in the order of their last write
    model,            \* __main__: state of simclr_model
    optimizer,        \* __main__: state of the optimizer
    lpc,              \* __main__: "scan" before load_checkpoint, "loaded" after
    ret,              \* value load_checkpoint returned to its caller
    raised,           \* exception load_checkpoint let out to its caller
    failure,          \* exception raised inside load_checkpoint's try block
    loaded_from,      \* file name load_checkpoint selected
    tpc,              \* training job: "main", "training"
    run,              \* number of restarts of the job so far
    start_epoch,      \* argument start_epoch of train()
    wpc,              \* per worker: position inside train()
    wepoch,           \* per worker: loop variable epoch
    wbatch,           \* per worker: loop variable batch_idx
    wmodel,           \* per worker: state of its simclr_model
    woptim,           \* per worker: state of its optimizer
    group,            \* per worker: process group initialised and not destroyed
    trace,            \* per worker: steps done in the current batch iteration
    snapshot,         \* per worker: states it checkpointed in the current batch
    completed,        \* epochs some worker ran through all of their batches
    saved_epochs,     \* loop epochs during which save_checkpoint was called
    at_interrupt,     \* latest checkpointed loop epoch when the job was interrupted
    zpc,              \* loss: "batch", "stacked", "done"
    images,           \* loss: number of samples in the batch
    z,                \* loss: the stacked embeddings, row k |-> [view, sample]
    mask,             \* loss: the masked (row, column) positions of sim
    pos_index,        \* loss: the tensor labels of nt_xent_loss
    pos_pairs         \* loss: per anchor, the rows gathered as anchor and positive

evalVars == <<results_dir, epc, nTrain, nTest, ei, classifier_type,
              features, labels, fit_calls, pred_calls>>

ckptVars == <<dir_state, ckpt_dir, model, optimizer, lpc, ret, raised,
              failure, loaded_from>>

trainVars == <<tpc, run, start_epoch, wpc, wepoch, wbatch, wmodel, woptim,
               group, trace, snapshot, completed, saved_epochs, at_interrupt>>

lossVars == <<zpc, images, z, mask, pos_index, pos_pairs>>

vars == <<evalVars, ckptVars, trainVars, lossVars>>

(***************************************************************************)
(* Bounds of the model.                                                    *)
(***************************************************************************)
MaxBatches == 11      \* largest loader length explored
MaxEpoch == 2         \* largest epoch number given to save_checkpoint
MaxFiles == 2         \* most files in the checkpoint directory
WorldSize == 2        \* worker processes spawned (torch.cuda.device_count())
NumBatches == 2       \* len(train_loader)
Epochs == 2           \* argument epochs of train() (__main__ passes 50)
MaxRestarts == 1      \* times the training job is interrupted and restarted
MaxImages == 40       \* largest batch given to the loss (batch_size is 256)

(***************************************************************************)
(* Python strings.                                                         *)
(***************************************************************************)
\* The characters that occur in the file names, in code-point order.
Alphabet ==
    << ".", "0", "1", "2", "3", "4", "5", "6", "7", "8", "9", "_",
       "a", "b", "c", "d", "e", "f", "g", "h", "i", "j", "k", "l", "m",
       "n", "o", "p", "q", "r", "s", "t", "u", "v", "w", "x", "y", "z" >>

Ord(c) == CHOOSE k \in 1..Len(Alphabet) : Alphabet[k] = c

Digits == << "0", "1", "2", "3", "4", "5", "6", "7", "8", "9" >>

IsDigit(c) == \E d \in 1..10 : Digits[d] = c

DigitValue(c) == (CHOOSE d \in 1..10 : Digits[d] = c) - 1

\* str(n) / "{n}" for a non-negative integer
RECURSIVE Str(_)
Str(n) ==
    IF n < 10 THEN << Digits[n + 1] >>
    ELSE Str(n \div 10) \o << Digits[(n % 10) + 1] >>

\* a < b for Python str: the first differing character decides, a proper
\* prefix is smaller
RECURSIVE StrLess(_, _)
StrLess(a, b) ==
    IF b = << >> THEN FALSE
    ELSE IF a = << >> THEN TRUE
    ELSE IF Head(a) # Head(b) THEN Ord(Head(a)) < Ord(Head(b))
    ELSE StrLess(Tail(a), Tail(b))

\* sorted(S) for a set of distinct strings
RECURSIVE Sorted(_)
Sorted(S) ==
    IF S = {} THEN << >>
    ELSE LET m == CHOOSE x \in S : \A y \in S : x = y \/ StrLess(x, y)
         IN  << m >> \o Sorted(S \ {m})

StartsWith(s, p) == Len(s) >= Len(p) /\ SubSeq(s, 1, Len(p)) = p

EndsWith(s, p) ==
    Len(s) >= Len(p) /\ SubSeq(s, Len(s) - Len(p) + 1, Len(s)) = p

\* s.split(sep) for a one-character separator
RECURSIVE SplitFrom(_, _, _)
SplitFrom(s, sep, cur) ==
    IF s = << >> THEN << cur >>
    ELSE IF Head(s) = sep THEN << cur >> \o SplitFrom(Tail(s), sep, << >>)
    ELSE SplitFrom(Tail(s), sep, Append(cur, Head(s)))

Split(s, sep) == SplitFrom(s, sep, << >>)

\* int(s) succeeds on a non-empty run of decimal digits (the file names here
\* hold no sign, blank or digit separator, which int() would also accept)
IsInt(s) == s # << >> /\ \A k \in 1..Len(s) : IsDigit(s[k])

RECURSIVE IntOf(_)
IntOf(s) ==
    IF s = << >> THEN 0
    ELSE 10 * IntOf(SubSeq(s, 1, Len(s) - 1)) + DigitValue(s[Len(s)])

RECURSIVE Concat(_)
Concat(ss) == IF ss = << >> THEN << >> ELSE Head(ss) \o Concat(Tail(ss))

(***************************************************************************)
(* train.py: save_checkpoint and load_checkpoint.                          *)
(* A checkpoint file is [name, readable, data]: data is the pickled dict   *)
(* (a function on the keys it holds), readable is FALSE for a file that    *)
(* torch.load cannot unpickle.  Model and optimizer states are integers:   *)
(* 0 is the state after construction, n >= 1 a trained snapshot.           *)
(***************************************************************************)
\* state of the model / optimizer built in __main__, before any restore
InitialState == 0

\* a state_dict / optimizer state that does not fit the model / optimizer
Incompatible == -1

\* model state after load_state_dict copied the matching tensors and raised
PartlyLoaded == -2

CheckpointStem == <<"c","h","e","c","k","p","o","i","n","t">>

PthTar == <<".","p","t","h",".","t","a","r">>

\* filename.format(epoch=epoch) with filename="checkpoint_{epoch}.pth.tar"
CheckpointFileName(epoch) == CheckpointStem \o <<"_">> \o Str(epoch) \o PthTar

FileNames(files) == {files[k].name : k \in 1..Len(files)}

FileNamed(files, name) ==
    files[CHOOSE k \in 1..Len(files) : files[k].name = name]

\* torch.save(state, filepath): the file is created or replaced and becomes
\* the most recently written one
TorchSave(files, name, state) ==
    SelectSeq(files, LAMBDA f : f.name # name)
        \o << [name |-> name, readable |-> TRUE, data |-> state] >>

\* save_checkpoint(state, epoch, base_dir)
SaveCheckpoint(files, state, epoch) ==
    TorchSave(files, CheckpointFileName(epoch), state)

\* faulty variant: the files recognised by their stem instead of their extension
IsCheckpointFileByStem(name) == StartsWith(name, CheckpointStem)

\* chkpt.endswith('.pth.tar')
IsCheckpointFile(name) == EndsWith(name, PthTar)

\* x.split('_')[1] exists
HasEpochToken(name) == Len(Split(name, "_")) >= 2

\* x.split('_')[1].split('.')[0]
EpochToken(name) == Split(Split(name, "_")[2], ".")[1]

\* the exception the key function of max() raises on a file name, or "none"
KeyFailure(name) ==
    IF ~HasEpochToken(name) THEN "IndexError"
    ELSE IF ~IsInt(EpochToken(name)) THEN "ValueError"
    ELSE "none"

\* int(x.split('_')[1].split('.')[0])
EpochKey(name) == IntOf(EpochToken(name))

\* faulty variant: the most recently written file
LatestCheckpointsByTime(names, files) ==
    {n \in names : \A m \in names :
        (CHOOSE k \in 1..Len(files) : files[k].name = n)
          >= (CHOOSE k \in 1..Len(files) : files[k].name = m)}

\* max(checkpoints, key=...): the files of maximal key (the first of them in
\* os.listdir order is returned, and that order is arbitrary)
LatestCheckpoints(names, files) ==
    {n \in names : \A m \in names : EpochKey(n) >= EpochKey(m)}

\* faulty variant: a handler that catches OSError only
CaughtOSErrorOnly(exc) == exc \in {"FileNotFoundError", "PermissionError"}

\* except Exception as e: every exception raised in the try block derives
\* from Exception
Caught(exc) ==
    exc \in {"FileNotFoundError", "PermissionError", "IndexError", "ValueError",
             "UnpicklingError", "KeyError", "RuntimeError"}

\* leaving load_checkpoint with exception exc raised in the try block, the
\* model and the optimizer being in states m and o at that point
Failed(exc, m, o, from) ==
    [ret |-> IF Caught(exc) THEN 0 ELSE -1,
     raised |-> IF Caught(exc) THEN "none" ELSE exc,
     failure |-> exc, model |-> m, optimizer |-> o, from |-> from]

Returned(epoch, m, o, from) ==
    [ret |-> epoch, raised |-> "none", failure |-> "none",
     model |-> m, optimizer |-> o, from |-> from]

\* lines 100-105: restore from the selected file
RestoreOutcomes(file, m, o) ==
    IF ~file.readable THEN {Failed("UnpicklingError", m, o, file.name)}
    ELSE IF "state_dict" \notin DOMAIN file.data
         THEN {Failed("KeyError", m, o, file.name)}
    ELSE IF file.data["state_dict"] = Incompatible
         THEN {Failed("RuntimeError", m2, o, file.name) : m2 \in {m, PartlyLoaded}}
    ELSE IF "optimizer" \notin DOMAIN file.data
         THEN {Failed("KeyError", file.data["state_dict"], o, file.name)}
    ELSE IF file.data["optimizer"] = Incompatible
         THEN {Failed("ValueError", file.data["state_dict"], o, file.name)}
    ELSE IF "epoch" \notin DOMAIN file.data
         THEN {Failed("KeyError", file.data["state_dict"],
                      file.data["optimizer"], file.name)}
    ELSE {Returned(file.data["epoch"], file.data["state_dict"],
                   file.data["optimizer"], file.name)}

\* load_checkpoint(checkpoint_dir, model, optimizer): every outcome the call
\* can have on directory state ds holding files, with model m, optimizer o
LoadCheckpoint(ds, files, m, o) ==
    LET checkpoints == {n \in FileNames(files) : IsCheckpointFile(n)}
        bad == {n \in checkpoints : KeyFailure(n) # "none"}
    IN  IF ds = "missing" THEN {Failed("FileNotFoundError", m, o, << >>)}
        ELSE IF ds = "unreadable" THEN {Failed("PermissionError", m, o, << >>)}
        ELSE IF checkpoints = {} THEN {Returned(0, m, o, << >>)}
        ELSE IF bad # {} THEN {Failed(KeyFailure(n), m, o, << >>) : n \in bad}
        ELSE UNION {RestoreOutcomes(FileNamed(files, n), m, o) :
                        n \in LatestCheckpoints(checkpoints, files)}

(***************************************************************************)
(* Checkpoint scenario: files are written by save_checkpoint in any order, *)
(* other files appear in the directory, then __main__ calls                *)
(* load_checkpoint once.                                                   *)
(***************************************************************************)
\* a well-formed state dict as train() builds it; the snapshot it carries is
\* distinct for each (epoch, stored epoch) pair
SavedState(epoch, stored) ==
    [epoch |-> stored, state_dict |-> 2 * epoch + (stored - epoch) + 1,
     optimizer |-> 2 * epoch + (stored - epoch) + 1]

GoodData == SavedState(MaxEpoch, MaxEpoch)

\* checkpoint files that torch.load or the restore steps fail on
DamagedData ==
    { [k \in {"optimizer", "epoch"} |-> GoodData[k]],
      [k \in {"state_dict", "epoch"} |-> GoodData[k]],
      [k \in {"state_dict", "optimizer"} |-> GoodData[k]],
      [GoodData EXCEPT !["state_dict"] = Incompatible],
      [GoodData EXCEPT !["optimizer"] = Incompatible] }

\* files in the directory that save_checkpoint did not write
OtherFiles ==
    { [name |-> <<"n","o","t","e","s",".","t","x","t">>,
       readable |-> FALSE, data |-> GoodData],
      [name |-> CheckpointStem \o <<"_","2",".","p","t","h">>,
       readable |-> TRUE, data |-> GoodData],
      [name |-> <<"b","e","s","t">> \o PthTar,
       readable |-> TRUE, data |-> GoodData],
      [name |-> CheckpointStem \o <<"_","f","i","n","a","l">> \o PthTar,
       readable |-> TRUE, data |-> GoodData] }
    \cup { [name |-> CheckpointFileName(e), readable |-> FALSE, data |-> GoodData] :
             e \in 0..MaxEpoch }
    \cup { [name |-> CheckpointFileName(e), readable |-> TRUE, data |-> d] :
             e \in 0..MaxEpoch, d \in DamagedData }

CanAdd(files, name) == Len(files) < MaxFiles \/ name \in FileNames(files)

CkptInit ==
    /\ dir_state \in {"missing", "unreadable", "ok"}
    /\ ckpt_dir = << >>
    /\ model = InitialState
    /\ optimizer = InitialState
    /\ lpc = "scan"
    /\ ret = -1
    /\ raised = "none"
    /\ failure = "none"
    /\ loaded_from = << >>

\* save_checkpoint(state, epoch): os.makedirs creates a missing directory
CkptSave ==
    /\ lpc = "scan"
    /\ dir_state # "unreadable"
    /\ \E epoch \in 0..MaxEpoch, stored \in 0..(MaxEpoch + 1) :
        /\ stored \in {epoch, epoch + 1}
        /\ CanAdd(ckpt_dir, CheckpointFileName(epoch))
        /\ ckpt_dir' = SaveCheckpoint(ckpt_dir, SavedState(epoch, stored), epoch)
    /\ dir_state' = "ok"
    /\ UNCHANGED <<model, optimizer, lpc, ret, raised, failure, loaded_from>>

\* another program (or a damaged write) leaves a file in the directory
CkptPlaceFile ==
    /\ lpc = "scan"
    /\ dir_state = "ok"
    /\ \E f \in OtherFiles :
        /\ CanAdd(ckpt_dir, f.name)
        /\ ckpt_dir' = SelectSeq(ckpt_dir, LAMBDA g : g.name # f.name) \o << f >>
    /\ UNCHANGED <<dir_state, model, optimizer, lpc, ret, raised, failure,
                   loaded_from>>

\* start_epoch = load_checkpoint(checkpoint_dir, simclr_model, optimizer)
CkptLoad ==
    /\ lpc = "scan"
    /\ \E out \in LoadCheckpoint(dir_state, ckpt_dir, model, optimizer) :
        /\ ret' = out.ret
        /\ raised' = out.raised
        /\ failure' = out.failure
        /\ model' = out.model
        /\ optimizer' = out.optimizer
        /\ loaded_from' = out.from
    /\ lpc' = "loaded"
    /\ UNCHANGED <<dir_state, ckpt_dir>>

CkptNext ==
    \/ CkptSave /\ UNCHANGED <<evalVars, trainVars, lossVars>>
    \/ CkptPlaceFile /\ UNCHANGED <<evalVars, trainVars, lossVars>>
    \/ CkptLoad /\ UNCHANGED <<evalVars, trainVars, lossVars>>

EvalIdle ==
    /\ results_dir = << >>
    /\ epc = "idle"
    /\ nTrain = 0
    /\ nTest = 0
    /\ ei = 0
    /\ classifier_type = "logistic"
    /\ features = << >>
    /\ labels = << >>
    /\ fit_calls = << >>
    /\ pred_calls = << >>

Workers == 0..(WorldSize - 1)

TrainIdle ==
    /\ tpc = "idle"
    /\ run = 0
    /\ start_epoch = 0
    /\ wpc = [w \in Workers |-> "idle"]
    /\ wepoch = [w \in Workers |-> 0]
    /\ wbatch = [w \in Workers |-> 0]
    /\ wmodel = [w \in Workers |-> InitialState]
    /\ woptim = [w \in Workers |-> InitialState]
    /\ group = [w \in Workers |-> FALSE]
    /\ trace = [w \in Workers |-> << >>]
    /\ snapshot = [w \in Workers |-> << >>]
    /\ completed = {}
    /\ saved_epochs = {}
    /\ at_interrupt = -1

CkptIdle ==
    /\ dir_state = "ok"
    /\ ckpt_dir = << >>
    /\ model = InitialState
    /\ optimizer = InitialState
    /\ lpc = "scan"
    /\ ret = -1
    /\ raised = "none"
    /\ failure = "none"
    /\ loaded_from = << >>

LossIdle ==
    /\ zpc = "idle"
    /\ images = 0
    /\ z = << >>
    /\ mask = {}
    /\ pos_index = << >>
    /\ pos_pairs = << >>

CkptStart ==
    /\ CkptInit
    /\ EvalIdle
    /\ TrainIdle
    /\ LossIdle

SpecCkpt == CkptStart /\ [][CkptNext]_vars

(***************************************************************************)
(* train.py: __main__ and train().  __main__ restores the latest           *)
(* checkpoint and spawns one train() process per device; each process has  *)
(* its own copy of the model and the optimizer, and all of them write to   *)
(* the same checkpoint directory.  The gradient all-reduce inside          *)
(* loss.backward() completes only when every process has reached it.  The  *)
(* job can be killed at any moment and started again.  A torch.save is one *)
(* step: a file is never seen half written.                                *)
(***************************************************************************)
\* if batch_idx % 100 == 0
CheckpointEvery == 100

CheckpointDue(b) == b % CheckpointEvery = 0

BatchPhases ==
    {"AUGMENT", "FORWARD", "LOSS", "BACKWARD", "STEP", "LOG", "CHECKPOINT"}

\* faulty variant: the checkpoint written between optimizer.step() and the logging
AfterPhaseCheckpointFirst(phase, b) ==
    CASE phase = "AUGMENT"    -> "FORWARD"
      [] phase = "FORWARD"    -> "LOSS"
      [] phase = "LOSS"       -> "BACKWARD"
      [] phase = "BACKWARD"   -> "STEP"
      [] phase = "STEP"       -> IF CheckpointDue(b) THEN "CHECKPOINT" ELSE "LOG"
      [] phase = "CHECKPOINT" -> "LOG"
      [] phase = "LOG"        -> "NEXT"

\* the statement order of the loop body, lines 123-141: what runs after phase
\* in batch b ("NEXT": the loop takes its next batch)
AfterPhase(phase, b) ==
    CASE phase = "AUGMENT"    -> "FORWARD"
      [] phase = "FORWARD"    -> "LOSS"
      [] phase = "LOSS"       -> "BACKWARD"
      [] phase = "BACKWARD"   -> "STEP"
      [] phase = "STEP"       -> "LOG"
      [] phase = "LOG"        -> IF CheckpointDue(b) THEN "CHECKPOINT" ELSE "NEXT"
      [] phase = "CHECKPOINT" -> "NEXT"

\* the dict train() passes to save_checkpoint, lines 137-141
StateToSave(e, m, o) ==
    [epoch |-> e + 1, state_dict |-> m, optimizer |-> o]

Max(S) == CHOOSE x \in S : \A y \in S : x >= y

TrainInit ==
    /\ dir_state \in {"missing", "ok"}
    /\ ckpt_dir = << >>
    /\ model = InitialState
    /\ optimizer = InitialState
    /\ lpc = "scan"
    /\ ret = -1
    /\ raised = "none"
    /\ failure = "none"
    /\ loaded_from = << >>
    /\ tpc = "main"
    /\ run = 0
    /\ start_epoch = 0
    /\ wpc = [w \in Workers |-> "idle"]
    /\ wepoch = [w \in Workers |-> 0]
    /\ wbatch = [w \in Workers |-> 0]
    /\ wmodel = [w \in Workers |-> InitialState]
    /\ woptim = [w \in Workers |-> InitialState]
    /\ group = [w \in Workers |-> FALSE]
    /\ trace = [w \in Workers |-> << >>]
    /\ snapshot = [w \in Workers |-> << >>]
    /\ completed = {}
    /\ saved_epochs = {}
    /\ at_interrupt = -1

\* __main__, lines 146-154: load_checkpoint, then mp.spawn(train, ...)
Main ==
    /\ tpc = "main"
    /\ \E out \in LoadCheckpoint(dir_state, ckpt_dir, model, optimizer) :
        /\ out.raised = "none"
        /\ ret' = out.ret
        /\ raised' = out.raised
        /\ failure' = out.failure
        /\ model' = out.model
        /\ optimizer' = out.optimizer
        /\ loaded_from' = out.from
        /\ start_epoch' = out.ret
        /\ wmodel' = [w \in Workers |-> out.model]
        /\ woptim' = [w \in Workers |-> out.optimizer]
    /\ lpc' = "loaded"
    /\ tpc' = "training"
    /\ wpc' = [w \in Workers |-> "SETUP"]
    /\ UNCHANGED <<dir_state, ckpt_dir, run, wepoch, wbatch, group, trace,
                   snapshot, completed, saved_epochs, at_interrupt>>

\* train(), lines 111-119: setup(rank, world_size), then the epoch loop is
\* entered (range(start_epoch, epochs) may be empty)
Setup(w) ==
    /\ tpc = "training"
    /\ wpc[w] = "SETUP"
    /\ group' = [group EXCEPT ![w] = TRUE]
    /\ wepoch' = [wepoch EXCEPT ![w] = start_epoch]
    /\ wbatch' = [wbatch EXCEPT ![w] = 0]
    /\ wpc' = [wpc EXCEPT ![w] =
                 IF start_epoch < Epochs THEN "AUGMENT" ELSE "TEARDOWN"]
    /\ UNCHANGED <<ckptVars, tpc, run, start_epoch, wmodel, woptim, trace,
                   snapshot, completed, saved_epochs, at_interrupt>>

\* control leaves phase of the loop body: the next statement, the next batch,
\* the next epoch, or the end of the loops
Leave(w, phase) ==
    LET nxt == AfterPhase(phase, wbatch[w])
    IN  IF nxt # "NEXT"
        THEN /\ wpc' = [wpc EXCEPT ![w] = nxt]
             /\ UNCHANGED <<wepoch, wbatch, completed>>
        ELSE IF wbatch[w] + 1 < NumBatches
        THEN /\ wpc' = [wpc EXCEPT ![w] = "AUGMENT"]
             /\ wbatch' = [wbatch EXCEPT ![w] = @ + 1]
             /\ UNCHANGED <<wepoch, completed>>
        ELSE /\ completed' = completed \cup {wepoch[w]}
             /\ IF wepoch[w] + 1 < Epochs
                THEN /\ wpc' = [wpc EXCEPT ![w] = "AUGMENT"]
                     /\ wepoch' = [wepoch EXCEPT ![w] = @ + 1]
                     /\ wbatch' = [wbatch EXCEPT ![w] = 0]
                ELSE /\ wpc' = [wpc EXCEPT ![w] = "TEARDOWN"]
                     /\ UNCHANGED <<wepoch, wbatch>>

\* the step just done, with the states the model and optimizer are left in
Done(phase, m, o) == [phase |-> phase, model |-> m, optimizer |-> o]

\* lines 123-125: optimizer.zero_grad(), the two augmented views
Augment(w) ==
    /\ tpc = "training"
    /\ wpc[w] = "AUGMENT"
    /\ trace' = [trace EXCEPT ![w] = << Done("AUGMENT", wmodel[w], woptim[w]) >>]
    /\ snapshot' = [snapshot EXCEPT ![w] = << >>]
    /\ Leave(w, "AUGMENT")
    /\ UNCHANGED <<ckptVars, tpc, run, start_epoch, wmodel, woptim, group,
                   saved_epochs, at_interrupt>>

\* lines 126-128: z_i, z_j, z
Forward(w) ==
    /\ tpc = "training"
    /\ wpc[w] = "FORWARD"
    /\ trace' = [trace EXCEPT ![w] = Append(@, Done("FORWARD", wmodel[w], woptim[w]))]
    /\ Leave(w, "FORWARD")
    /\ UNCHANGED <<ckptVars, tpc, run, start_epoch, wmodel, woptim, group,
                   snapshot, saved_epochs, at_interrupt>>

\* line 129: loss = nt_xent_loss(z, temperature)
Loss(w) ==
    /\ tpc = "training"
    /\ wpc[w] = "LOSS"
    /\ trace' = [trace EXCEPT ![w] = Append(@, Done("LOSS", wmodel[w], woptim[w]))]
    /\ Leave(w, "LOSS")
    /\ UNCHANGED <<ckptVars, tpc, run, start_epoch, wmodel, woptim, group,
                   snapshot, saved_epochs, at_interrupt>>

\* worker v takes part in the all-reduce of worker w's current batch
AtAllReduce(v, w) ==
    /\ wpc[v] \in BatchPhases
    /\ \/ wepoch[v] > wepoch[w]
       \/ wepoch[v] = wepoch[w] /\ wbatch[v] > wbatch[w]
       \/ /\ wepoch[v] = wepoch[w]
          /\ wbatch[v] = wbatch[w]
          /\ wpc[v] \in {"BACKWARD", "STEP", "LOG", "CHECKPOINT"}

\* line 130: loss.backward(), gradients all-reduced across the processes
Backward(w) ==
    /\ tpc = "training"
    /\ wpc[w] = "BACKWARD"
    /\ \A v \in Workers : AtAllReduce(v, w) \/ wpc[v] \in {"TEARDOWN", "DONE"}
    /\ trace' = [trace EXCEPT ![w] = Append(@, Done("BACKWARD", wmodel[w], woptim[w]))]
    /\ Leave(w, "BACKWARD")
    /\ UNCHANGED <<ckptVars, tpc, run, start_epoch, wmodel, woptim, group,
                   snapshot, saved_epochs, at_interrupt>>

\* line 131: optimizer.step()
Step(w) ==
    /\ tpc = "training"
    /\ wpc[w] = "STEP"
    /\ wmodel' = [wmodel EXCEPT ![w] = @ + 1]
    /\ woptim' = [woptim EXCEPT ![w] = @ + 1]
    /\ trace' = [trace EXCEPT ![w] = Append(@, Done("STEP", wmodel[w] + 1, woptim[w] + 1))]
    /\ Leave(w, "STEP")
    /\ UNCHANGED <<ckptVars, tpc, run, start_epoch, group, snapshot,
                   saved_epochs, at_interrupt>>

\* lines 132-135: total_loss, writer.add_scalar, the progress bar
Log(w) ==
    /\ tpc = "training"
    /\ wpc[w] = "LOG"
    /\ trace' = [trace EXCEPT ![w] = Append(@, Done("LOG", wmodel[w], woptim[w]))]
    /\ Leave(w, "LOG")
    /\ UNCHANGED <<ckptVars, tpc, run, start_epoch, wmodel, woptim, group,
                   snapshot, saved_epochs, at_interrupt>>

\* lines 136-141: save_checkpoint({...}, epoch, base_dir=checkpoint_dir)
Checkpoint(w) ==
    /\ tpc = "training"
    /\ wpc[w] = "CHECKPOINT"
    /\ LET state == StateToSave(wepoch[w], wmodel[w], woptim[w])
       IN  /\ ckpt_dir' = SaveCheckpoint(ckpt_dir, state, wepoch[w])
           /\ snapshot' = [snapshot EXCEPT ![w] = Append(@, state)]
    /\ dir_state' = "ok"
    /\ saved_epochs' = saved_epochs \cup {wepoch[w]}
    /\ trace' = [trace EXCEPT ![w] = Append(@, Done("CHECKPOINT", wmodel[w], woptim[w]))]
    /\ Leave(w, "CHECKPOINT")
    /\ UNCHANGED <<model, optimizer, lpc, ret, raised, failure, loaded_from,
                   tpc, run, start_epoch, wmodel, woptim, group, at_interrupt>>

\* lines 142-143: writer.close(); cleanup()
Teardown(w) ==
    /\ tpc = "training"
    /\ wpc[w] = "TEARDOWN"
    /\ group' = [group EXCEPT ![w] = FALSE]
    /\ wpc' = [wpc EXCEPT ![w] = "DONE"]
    /\ UNCHANGED <<ckptVars, tpc, run, start_epoch, wepoch, wbatch, wmodel,
                   woptim, trace, snapshot, completed, saved_epochs, at_interrupt>>

\* a statement of the loop body raises: nothing in train() catches it, the
\* exception leaves train() past lines 142-143
Raise(w) ==
    /\ tpc = "training"
    /\ wpc[w] \in BatchPhases
    /\ wpc' = [wpc EXCEPT ![w] = "RAISED"]
    /\ UNCHANGED <<ckptVars, tpc, run, start_epoch, wepoch, wbatch, wmodel,
                   woptim, group, trace, snapshot, completed, saved_epochs,
                   at_interrupt>>

\* mp.spawn(..., join=True): when a process has failed, the others are
\* terminated
SpawnJoin ==
    /\ tpc = "training"
    /\ \E w \in Workers : wpc[w] = "RAISED"
    /\ \E w \in Workers : wpc[w] \notin {"RAISED", "DONE", "KILLED"}
    /\ wpc' = [w \in Workers |->
                 IF wpc[w] \in {"RAISED", "DONE"} THEN wpc[w] ELSE "KILLED"]
    /\ UNCHANGED <<ckptVars, tpc, run, start_epoch, wepoch, wbatch, wmodel,
                   woptim, group, trace, snapshot, completed, saved_epochs,
                   at_interrupt>>

\* the job is killed and the script started again: new processes, a newly
\* built model and optimizer, the checkpoint directory as it was left
Interrupt ==
    /\ tpc = "training"
    /\ run < MaxRestarts
    /\ run' = run + 1
    /\ at_interrupt' = IF saved_epochs = {} THEN -1 ELSE Max(saved_epochs)
    /\ tpc' = "main"
    /\ model' = InitialState
    /\ optimizer' = InitialState
    /\ lpc' = "scan"
    /\ ret' = -1
    /\ raised' = "none"
    /\ failure' = "none"
    /\ loaded_from' = << >>
    /\ start_epoch' = 0
    /\ wpc' = [w \in Workers |-> "idle"]
    /\ wepoch' = [w \in Workers |-> 0]
    /\ wbatch' = [w \in Workers |-> 0]
    /\ wmodel' = [w \in Workers |-> InitialState]
    /\ woptim' = [w \in Workers |-> InitialState]
    /\ group' = [w \in Workers |-> FALSE]
    /\ trace' = [w \in Workers |-> << >>]
    /\ snapshot' = [w \in Workers |-> << >>]
    /\ UNCHANGED <<dir_state, ckpt_dir, completed, saved_epochs>>

TrainNext ==
    \/ Main /\ UNCHANGED <<evalVars, lossVars>>
    \/ Interrupt /\ UNCHANGED <<evalVars, lossVars>>
    \/ SpawnJoin /\ UNCHANGED <<evalVars, lossVars>>
    \/ \E w \in Workers : Setup(w) /\ UNCHANGED <<evalVars, lossVars>>
    \/ \E w \in Workers : Augment(w) /\ UNCHANGED <<evalVars, lossVars>>
    \/ \E w \in Workers : Forward(w) /\ UNCHANGED <<evalVars, lossVars>>
    \/ \E w \in Workers : Loss(w) /\ UNCHANGED <<evalVars, lossVars>>
    \/ \E w \in Workers : Backward(w) /\ UNCHANGED <<evalVars, lossVars>>
    \/ \E w \in Workers : Step(w) /\ UNCHANGED <<evalVars, lossVars>>
    \/ \E w \in Workers : Log(w) /\ UNCHANGED <<evalVars, lossVars>>
    \/ \E w \in Workers : Checkpoint(w) /\ UNCHANGED <<evalVars, lossVars>>
    \/ \E w \in Workers : Teardown(w) /\ UNCHANGED <<evalVars, lossVars>>
    \/ \E w \in Workers : Raise(w) /\ UNCHANGED <<evalVars, lossVars>>

TrainStart ==
    /\ TrainInit
    /\ EvalIdle
    /\ LossIdle

SpecTrain == TrainStart /\ [][TrainNext]_vars

(***************************************************************************)
(* train.py: the stack of embeddings train() builds and the positive       *)
(* index nt_xent_loss computes for it.  Tensors are functions on 0..n-1.   *)
(***************************************************************************)
\* torch.cat((a, b), dim=0)
TorchCat(a, b, na, nb) ==
    [k \in 0..(na + nb - 1) |-> IF k < na THEN a[k] ELSE b[k - na]]

\* faulty variant: the two views of a sample stacked next to each other
StackViewsInterleaved(n) ==
    [k \in 0..(2 * n - 1) |->
        [view |-> IF k % 2 = 0 THEN "i" ELSE "j", sample |-> k \div 2]]

\* lines 124-128: z_i and z_j hold one row per image of the batch, in the
\* order of the batch; z = torch.cat((z_i, z_j), dim=0)
StackViews(n) ==
    LET z_i == [s \in 0..(n - 1) |-> [view |-> "i", sample |-> s]]
        z_j == [s \in 0..(n - 1) |-> [view |-> "j", sample |-> s]]
    IN  TorchCat(z_i, z_j, n, n)

\* lines 49-50: labels = (torch.arange(2*N) + N) % (2*N), at position k
PositiveIndex(k, N) == (k + N) % (2 * N)

\* line 46: torch.eye(2*N).bool(), as the set of positions that are True
EyeMask(N) == {<<k, k>> : k \in 0..(2 * N - 1)}

LossInit ==
    /\ zpc = "batch"
    /\ images \in 1..MaxImages
    /\ z = << >>
    /\ mask = {}
    /\ pos_index = << >>
    /\ pos_pairs = << >>

\* train(), lines 124-128
BuildStack ==
    /\ zpc = "batch"
    /\ z' = StackViews(images)
    /\ zpc' = "stacked"
    /\ UNCHANGED <<images, mask, pos_index, pos_pairs>>

\* nt_xent_loss(z, tau), lines 40-51: N, the diagonal mask, the labels, and
\* the gather of column labels[k] in each row k
NtXentLoss ==
    /\ zpc = "stacked"
    /\ LET size0 == Cardinality(DOMAIN z)
           N == size0 \div 2
           lab == [k \in 0..(2 * N - 1) |-> PositiveIndex(k, N)]
       IN  /\ mask' = EyeMask(N)
           /\ pos_index' = lab
           /\ pos_pairs' = [k \in 0..(2 * N - 1) |->
                              [anchor |-> z[k], positive |-> z[lab[k]],
                               masked |-> <<k, lab[k]>> \in EyeMask(N)]]
    /\ zpc' = "done"
    /\ UNCHANGED <<images, z>>

LossNext ==
    \/ BuildStack /\ UNCHANGED <<evalVars, ckptVars, trainVars>>
    \/ NtXentLoss /\ UNCHANGED <<evalVars, ckptVars, trainVars>>

LossStart ==
    /\ LossInit
    /\ EvalIdle
    /\ CkptIdle
    /\ TrainIdle

SpecLoss == LossStart /\ [][LossNext]_vars

(***************************************************************************)
(* eval_crop_optimized.py: feature extraction into shards, and reading the *)
(* shards back.  A row is the loader-order identity of the sample it       *)
(* belongs to: the feature row of sample s and the label of sample s are   *)
(* both written s, so the two are aligned exactly when they are equal.     *)
(***************************************************************************)
BATCH == 32

TrainSplit == <<"t","r","a","i","n">>

TestSplit == <<"t","e","s","t">>

FeaturesPrefix(split_name) ==
    split_name \o <<"_","f","e","a","t","u","r","e","s","_","b","a","t","c","h","_">>

LabelsPrefix(split_name) ==
    split_name \o <<"_","l","a","b","e","l","s","_","b","a","t","c","h","_">>

NpyExt == <<".","n","p","y">>

\* f'{split_name}_features_batch_{i}.npy'
FeaturesFileName(split_name, i) == FeaturesPrefix(split_name) \o Str(i) \o NpyExt

\* faulty variant: the label shards named with a zero-padded batch index
LabelsFileNamePadded(split_name, i) ==
    LabelsPrefix(split_name) \o (IF i < 10 THEN <<"0">> ELSE << >>) \o Str(i) \o NpyExt

\* f'{split_name}_labels_batch_{i}.npy'
LabelsFileName(split_name, i) == LabelsPrefix(split_name) \o Str(i) \o NpyExt

\* batch i of a loader (drop_last=True: every batch holds BATCH samples)
BatchRows(i) == [r \in 1..BATCH |-> i * BATCH + (r - 1)]

\* np.save(os.path.join(save_dir, name), rows)
NpSave(dir, name, rows) ==
    [f \in (DOMAIN dir) \cup {name} |-> IF f = name THEN rows ELSE dir[f]]

\* one iteration of the loop of extract_features_and_labels
ExtractBatch(dir, split_name, i) ==
    NpSave(NpSave(dir, FeaturesFileName(split_name, i), BatchRows(i)),
           LabelsFileName(split_name, i), BatchRows(i))

\* sorted([f for f in os.listdir(save_dir) if f.startswith(prefix)])
SortedFiles(dir, prefix) == Sorted({f \in DOMAIN dir : StartsWith(f, prefix)})

\* load_and_concatenate_features(save_dir, split_name)
LoadAndConcatenate(dir, split_name) ==
    LET feature_files == SortedFiles(dir, FeaturesPrefix(split_name))
        label_files   == SortedFiles(dir, LabelsPrefix(split_name))
    IN  [features |-> Concat([k \in 1..Len(feature_files) |-> dir[feature_files[k]]]),
         labels   |-> Concat([k \in 1..Len(label_files) |-> dir[label_files[k]]])]

\* zip(sorted feature files, sorted label files), each pair loaded
ZipShards(dir, split_name) ==
    LET feature_files == SortedFiles(dir, FeaturesPrefix(split_name))
        label_files   == SortedFiles(dir, LabelsPrefix(split_name))
        n == IF Len(feature_files) < Len(label_files)
             THEN Len(feature_files) ELSE Len(label_files)
    IN  [k \in 1..n |-> [feat_file  |-> feature_files[k],
                         label_file |-> label_files[k],
                         features   |-> dir[feature_files[k]],
                         labels     |-> dir[label_files[k]]]]

EvalInit ==
    /\ CkptIdle
    /\ TrainIdle
    /\ LossIdle
    /\ results_dir = << >>
    /\ epc = "extract_train"
    /\ nTrain \in 1..MaxBatches
    /\ nTest \in 1..MaxBatches
    /\ ei = 0
    /\ classifier_type \in {"logistic", "knn"}
    /\ features = << >>
    /\ labels = << >>
    /\ fit_calls = << >>
    /\ pred_calls = << >>

\* extract_features_and_labels(simclr_model, train_loader, ..., 'train')
ExtractTrainStep ==
    /\ epc = "extract_train"
    /\ ei < nTrain
    /\ results_dir' = ExtractBatch(results_dir, TrainSplit, ei)
    /\ ei' = ei + 1
    /\ UNCHANGED <<epc, nTrain, nTest, classifier_type, features, labels,
                   fit_calls, pred_calls, ckptVars, trainVars, lossVars>>

ExtractTrainDone ==
    /\ epc = "extract_train"
    /\ ei = nTrain
    /\ epc' = "extract_test"
    /\ ei' = 0
    /\ UNCHANGED <<results_dir, nTrain, nTest, classifier_type, features,
                   labels, fit_calls, pred_calls, ckptVars, trainVars, lossVars>>

\* extract_features_and_labels(simclr_model, eval_loader, ..., 'test')
ExtractTestStep ==
    /\ epc = "extract_test"
    /\ ei < nTest
    /\ results_dir' = ExtractBatch(results_dir, TestSplit, ei)
    /\ ei' = ei + 1
    /\ UNCHANGED <<epc, nTrain, nTest, classifier_type, features, labels,
                   fit_calls, pred_calls, ckptVars, trainVars, lossVars>>

ExtractTestDone ==
    /\ epc = "extract_test"
    /\ ei = nTest
    /\ epc' = "load_train"
    /\ UNCHANGED <<results_dir, nTrain, nTest, ei, classifier_type, features,
                   labels, fit_calls, pred_calls, ckptVars, trainVars, lossVars>>

\* train_features, train_labels = load_and_concatenate_features(results_dir, 'train')
LoadTrainFeatures ==
    /\ epc = "load_train"
    /\ LET r == LoadAndConcatenate(results_dir, TrainSplit)
       IN  /\ features' = r.features
           /\ labels' = r.labels
    /\ epc' = "evaluate"
    /\ UNCHANGED <<results_dir, nTrain, nTest, ei, classifier_type,
                   fit_calls, pred_calls, ckptVars, trainVars, lossVars>>

\* evaluate_model_incremental(..., classifier_type="logistic")
EvaluateLogistic ==
    /\ epc = "evaluate"
    /\ classifier_type = "logistic"
    /\ fit_calls' = ZipShards(results_dir, TrainSplit)
    /\ pred_calls' = ZipShards(results_dir, TestSplit)
    /\ epc' = "done"
    /\ UNCHANGED <<results_dir, nTrain, nTest, ei, classifier_type,
                   features, labels, ckptVars, trainVars, lossVars>>

\* evaluate_model_incremental(..., classifier_type="knn")
EvaluateKnn ==
    /\ epc = "evaluate"
    /\ classifier_type = "knn"
    /\ LET tr == LoadAndConcatenate(results_dir, TrainSplit)
           te == LoadAndConcatenate(results_dir, TestSplit)
       IN  /\ fit_calls' = << [feat_file |-> << >>, label_file |-> << >>,
                               features |-> tr.features, labels |-> tr.labels] >>
           /\ pred_calls' = << [feat_file |-> << >>, label_file |-> << >>,
                                features |-> te.features, labels |-> te.labels] >>
    /\ epc' = "done"
    /\ UNCHANGED <<results_dir, nTrain, nTest, ei, classifier_type,
                   features, labels, ckptVars, trainVars, lossVars>>

EvalNext ==
    \/ ExtractTrainStep
    \/ ExtractTrainDone
    \/ ExtractTestStep
    \/ ExtractTestDone
    \/ LoadTrainFeatures
    \/ EvaluateLogistic
    \/ EvaluateKnn

SpecEval == EvalInit /\ [][EvalNext]_vars

(***************************************************************************)
(* Properties of the shard pipeline.                                       *)
(***************************************************************************)
\* rows of batches 0..n-1 in the loader's iteration order
LoaderRows(n) == Concat([i \in 1..n |-> BatchRows(i - 1)])

\* the batch index embedded in a shard file name
ShardIndex(name, prefix) ==
    IntOf(SubSeq(name, Len(prefix) + 1, Len(name) - Len(NpyExt)))

TrainLoaded == epc \in {"evaluate", "done"}

\* C3: shard round trip. After extracting B >= 1 batches of a split into an
\* empty directory, load_and_concatenate_features returns exactly the rows of
\* all B batches in the loader's iteration order (batch 0 first, ..., batch
\* B-1 last), with the sample count that was written.
C3_ShardRoundTrip ==
    TrainLoaded =>
        /\ Len(features) = nTrain * BATCH
        /\ Len(labels) = nTrain * BATCH
        /\ features = LoaderRows(nTrain)
        /\ labels = LoaderRows(nTrain)

\* C10: feature/label alignment. The feature shard and the label shard paired
\* by position after sorting carry the same batch index, in
\* load_and_concatenate_features and in the zip of
\* evaluate_model_incremental, so every feature row meets its own label.
C10_ShardAlignment ==
    /\ TrainLoaded =>
        /\ Len(features) = Len(labels)
        /\ \A k \in 1..Len(features) : features[k] = labels[k]
    /\ \A k \in 1..Len(fit_calls) :
        /\ fit_calls[k].features = fit_calls[k].labels
        /\ classifier_type = "logistic" =>
             ShardIndex(fit_calls[k].feat_file, FeaturesPrefix(TrainSplit))
               = ShardIndex(fit_calls[k].label_file, LabelsPrefix(TrainSplit))
    /\ \A k \in 1..Len(pred_calls) :
        /\ pred_calls[k].features = pred_calls[k].labels
        /\ classifier_type = "logistic" =>
             ShardIndex(pred_calls[k].feat_file, FeaturesPrefix(TestSplit))
               = ShardIndex(pred_calls[k].label_file, LabelsPrefix(TestSplit))

\* C10 witness: an incremental evaluation has run over shards whose sorted
\* file order differs from the numeric batch order.
C10_Witness ==
    /\ epc = "done"
    /\ classifier_type = "logistic"
    /\ Len(fit_calls) = nTrain
    /\ features # LoaderRows(nTrain)
    /\ \E k \in 1..Len(fit_calls) :
         ShardIndex(fit_calls[k].feat_file, FeaturesPrefix(TrainSplit)) # k - 1

(***************************************************************************)
(* Properties of save_checkpoint / load_checkpoint (SpecCkpt).             *)
(***************************************************************************)
Loaded == lpc = "loaded"

\* file f is one save_checkpoint wrote from a well-formed state
WrittenBySave(f) ==
    \E e \in 0..MaxEpoch, st \in 0..(MaxEpoch + 1) :
        f = [name |-> CheckpointFileName(e), readable |-> TRUE,
             data |-> SavedState(e, st)]

\* the epoch number save_checkpoint put into the name of f
NameEpoch(f) == CHOOSE e \in 0..MaxEpoch : f.name = CheckpointFileName(e)

\* the directory holds checkpoint files, and save_checkpoint wrote each one
\* (the files that are not named *.pth.tar are arbitrary)
SavedCheckpoints == {k \in 1..Len(ckpt_dir) : EndsWith(ckpt_dir[k].name, PthTar)}

OnlySavedFiles ==
    /\ dir_state = "ok"
    /\ SavedCheckpoints # {}
    /\ \A k \in SavedCheckpoints : WrittenBySave(ckpt_dir[k])

\* C2: for a non-empty directory of files written by save_checkpoint in any
\* order, load_checkpoint selects the file whose name carries the largest
\* epoch number, whatever the order of the writes, restores model and
\* optimizer from it and returns the epoch stored in it.
C2_LoadsMaxEpochFile ==
    (Loaded /\ OnlySavedFiles) =>
        \E k \in SavedCheckpoints :
            /\ \A j \in SavedCheckpoints :
                 NameEpoch(ckpt_dir[k]) >= NameEpoch(ckpt_dir[j])
            /\ loaded_from = ckpt_dir[k].name
            /\ ret = ckpt_dir[k].data["epoch"]
            /\ model = ckpt_dir[k].data["state_dict"]
            /\ optimizer = ckpt_dir[k].data["optimizer"]
            /\ raised = "none"

\* C2 witness: the larger epoch was saved first, the smaller one last, and
\* the load returned the epoch stored in the file of the larger one.
C2_Witness ==
    /\ Loaded
    /\ OnlySavedFiles
    /\ SavedCheckpoints = {1, 2}
    /\ NameEpoch(ckpt_dir[1]) > NameEpoch(ckpt_dir[2])
    /\ loaded_from = ckpt_dir[1].name
    /\ ret = ckpt_dir[1].data["epoch"]
    /\ ret # NameEpoch(ckpt_dir[1])

\* C4: whatever fails inside load_checkpoint (directory missing or
\* unreadable, unparsable epoch token, corrupt file, missing key, model or
\* optimizer mismatch), the call does not raise to its caller and returns 0.
C4_LoadNeverRaises ==
    Loaded =>
        /\ raised = "none"
        /\ failure # "none" => ret = 0

\* C4 witness: a restore step failed after a file had been selected, and the
\* call returned 0.
C4_Witness ==
    /\ Loaded
    /\ failure = "KeyError"
    /\ loaded_from # << >>
    /\ ret = 0

\* C5: whenever load_checkpoint returns 0 because a restore step failed,
\* the model and the optimizer are in the state they had before the call.
C5_FailedRestoreLeavesState ==
    (Loaded /\ failure # "none") =>
        /\ model = InitialState
        /\ optimizer = InitialState

\* C8: load_checkpoint on an existing directory with no file named
\* *.pth.tar, whatever else it holds, returns 0 and leaves the model and the
\* optimizer as they were.
C8_NoCheckpointFiles ==
    (/\ Loaded
     /\ dir_state = "ok"
     /\ \A k \in 1..Len(ckpt_dir) : ~EndsWith(ckpt_dir[k].name, PthTar)) =>
        /\ ret = 0
        /\ raised = "none"
        /\ failure = "none"
        /\ loaded_from = << >>
        /\ model = InitialState
        /\ optimizer = InitialState

\* C8 witness: the directory held two files, neither a checkpoint, and the
\* load returned 0.
C8_Witness ==
    /\ Loaded
    /\ dir_state = "ok"
    /\ Len(ckpt_dir) = 2
    /\ \A k \in 1..Len(ckpt_dir) : ~EndsWith(ckpt_dir[k].name, PthTar)
    /\ ret = 0

(***************************************************************************)
(* Properties of the training job (SpecTrain).                             *)
(***************************************************************************)
AllDone == tpc = "training" /\ \A w \in Workers : wpc[w] = "DONE"

Resumed == run >= 1 /\ at_interrupt >= 0 /\ tpc = "training"

\* C1: a run interrupted after at least one save_checkpoint call and
\* restarted through load_checkpoint starts again at the beginning of the
\* epoch that was in progress when the latest checkpoint was written, so
\* every epoch 0..epochs-1 has all its batches processed at least once
\* across the interrupted and the resumed run.
C1_ResumeAtLeastOnce ==
    /\ Resumed => start_epoch = at_interrupt
    /\ (Resumed /\ AllDone) => completed = 0..(Epochs - 1)

\* C6: every worker that completed setup() has called cleanup() when it has
\* left the epoch/batch loop, by exhausting the epochs or by an exception
\* raised in a batch step.
C6_TeardownOnEveryExit ==
    \A w \in Workers : wpc[w] \in {"DONE", "RAISED"} => ~group[w]

PhasesOf(t) == [k \in 1..Len(t) |-> t[k].phase]

IsPrefix(a, b) == Len(a) <= Len(b) /\ a = SubSeq(b, 1, Len(a))

\* the checkpoint a worker wrote in its current batch holds the state the
\* model and the optimizer were left in by that batch's optimizer step
SnapshotIsPostStep(w) ==
    (\E k \in 1..Len(trace[w]) : trace[w][k].phase = "CHECKPOINT") =>
        /\ Len(trace[w]) >= 5
        /\ trace[w][4].phase = "BACKWARD"
        /\ trace[w][5].phase = "STEP"
        /\ trace[w][5].model = trace[w][4].model + 1
        /\ trace[w][5].optimizer = trace[w][4].optimizer + 1
        /\ Len(snapshot[w]) = 1
        /\ snapshot[w][1]["state_dict"] = trace[w][5].model
        /\ snapshot[w][1]["optimizer"] = trace[w][5].optimizer

\* C7 as stated: in every batch the steps run in the order AUGMENT, FORWARD,
\* LOSS, BACKWARD, STEP, the optional CHECKPOINT, LOG, and a checkpoint
\* holds the post-step model and optimizer state.
C7_CheckpointBeforeLog ==
    \A w \in Workers :
        /\ \/ IsPrefix(PhasesOf(trace[w]),
                <<"AUGMENT", "FORWARD", "LOSS", "BACKWARD", "STEP", "CHECKPOINT", "LOG">>)
           \/ IsPrefix(PhasesOf(trace[w]),
                <<"AUGMENT", "FORWARD", "LOSS", "BACKWARD", "STEP", "LOG">>)
        /\ SnapshotIsPostStep(w)

\* C7 amended: in every batch the steps run in the order AUGMENT, FORWARD,
\* LOSS, BACKWARD, STEP, LOG, then the optional CHECKPOINT: the checkpoint is
\* written after the optimizer step and after that batch's logging, and it
\* holds the post-step model and optimizer state.
C7_CheckpointAfterLog ==
    \A w \in Workers :
        /\ IsPrefix(PhasesOf(trace[w]),
             <<"AUGMENT", "FORWARD", "LOSS", "BACKWARD", "STEP", "LOG", "CHECKPOINT">>)
        /\ SnapshotIsPostStep(w)

\* C7 witness: a worker has just written a checkpoint as the seventh step of
\* a batch.
C7_Witness ==
    \E w \in Workers :
        /\ Len(trace[w]) = 7
        /\ trace[w][7].phase = "CHECKPOINT"
        /\ trace[w][6].phase = "LOG"
        /\ Len(snapshot[w]) = 1
        /\ snapshot[w][1]["state_dict"] = wmodel[w]
        /\ wmodel[w] > InitialState

(***************************************************************************)
(* Property of the loss (SpecLoss).                                        *)
(***************************************************************************)
\* C9: for every N >= 1 and every anchor k of the 2N-row stack built as the
\* view-i rows of samples 0..N-1 followed by their view-j rows, the positive
\* nt_xent_loss uses is (k+N) mod 2N; it is the other view of the sample of
\* k, it is not k (the masked diagonal), and the positive of the positive of
\* k is k.
C9_PositiveIsOtherView ==
    zpc = "done" =>
        /\ DOMAIN pos_index = 0..(2 * images - 1)
        /\ \A k \in 0..(2 * images - 1) :
            LET p == pos_index[k]
            IN  /\ p = (k + images) % (2 * images)
                /\ p \in DOMAIN z
                /\ z[p].sample = z[k].sample
                /\ z[p].view # z[k].view
                /\ p # k
                /\ <<k, p>> \notin mask
                /\ <<k, k>> \in mask
                /\ pos_index[p] = k
                /\ pos_pairs[k].anchor = z[k]
                /\ pos_pairs[k].positive = z[p]
                /\ ~pos_pairs[k].masked

\* C9 witness: the loss has paired the rows of a batch of several samples.
C9_Witness ==
    /\ zpc = "done"
    /\ images >= 3
    /\ pos_index[0] = images
    /\ pos_index[2 * images - 1] = images - 1

=============================================================================
